---- MODULE Spec2Model ----
(***************************************************************************)
(* A model of the algorithmic core of sentris_rag:                         *)
(*   - LearningPathGenerator._structure_path   (educational/learning_path) *)
(*   - AdaptiveQuizGenerator                   (educational/quiz)          *)
(*   - DocumentProcessor._chunk_text           (rag/processor)             *)
(*   - LearningPathGenerator._gather_content   (educational/learning_path) *)
(*   - WebSearch.search with its cache         (sentris_rag/web/search)    *)
(*   - WebSearch.search over requests          (web/search)                *)
(*   - RagSystem._generate_flashcards          (sentris_rag/__init__)      *)
(*   - RagSystem.process_document and KnowledgeBase.add_documents          *)
(* Each component has its own initial condition and next-state relation;   *)
(* the variables of the components that a specification does not exercise *)
(* stay at their idle values.                                              *)
(***************************************************************************)
EXTENDS Integers, Sequences, FiniteSets, TLC

VARIABLES
    \* ---- LearningPathGenerator._structure_path ----
    p_pc,          \* "idle" | "call" | "done"
    p_content,     \* content: per item the value of metadata["difficulty"]
    p_level,       \* user_profile["level"]
    p_style,       \* user_profile["learning_style"]
    p_hours,       \* max_duration_hours * 60 (minutes), or NoBudget for None
    p_result,      \* what the call produced: a path or the exception raised
    \* ---- AdaptiveQuizGenerator ----
    q_pc,          \* "idle" | "quiz" | "pure" | "done"
    q_content,     \* retrieved content: per item metadata.get("difficulty");
                   \* every item's metadata holds the "topic" the question
                   \* builders read (quiz.py:124, 144, 164)
    q_level,       \* user_level / target_difficulty, in hundredths
    q_num,         \* num_questions
    q_types,       \* question_types (a sequence), or NoTypes for None
    q_result,      \* result of the operation that ran
    \* ---- DocumentProcessor._chunk_text ----
    c_pc,          \* "idle" | "loop" | "done"
    c_tokens,      \* tokens = self.tokenizer.encode(text)
    c_size,        \* self.chunk_size
    c_overlap,     \* self.chunk_overlap
    c_max,         \* self.max_chunks
    c_start,       \* the cursor `start`
    c_chunks,      \* chunks emitted so far, each with the slice it came from
    \* ---- LearningPathGenerator._gather_content ----
    g_pc,          \* "idle" | "loop" | "done"
    g_goals,       \* learning_goals
    g_idx,         \* number of goals whose iteration has run
    g_calls,       \* the rag.search calls issued, each with its outcome
    g_content,     \* the list `content` built so far
    g_result,      \* what the call produced: the list or the exception raised
    \* ---- WebSearch (aiohttp), one instance shared by concurrent calls ----
    w_call,        \* per search call: position, arguments, locals, outcome
    w_cache,       \* self.cache: the keys present and their entries
    w_now,         \* datetime.utcnow(), in seconds
    w_duration,    \* self.cache_duration
    w_running,     \* the call the event loop is running, or NoCall
    w_fetches,     \* the search-engine requests made, in order
    \* ---- WebSearch (requests), one search call ----
    s_pc,          \* "idle" | "call" | "done"
    s_engine,      \* the engine argument, or NoEngine for None
    s_config,      \* the keys present in self.config
    s_response,    \* how the network answers: the engine request, and per
                   \* result the page fetch of _extract_content
    s_log,         \* _respect_rate_limit calls and HTTP requests, in order
    s_times,       \* per entry of s_log the time at which it happened
    s_rate,        \* self.rate_limit, in seconds
    s_latency,     \* how long a HTTP request of this call takes, in seconds
    s_result,      \* what search returned or raised
    \* ---- RagSystem._generate_flashcards ----
    f_pc,          \* "idle" | "call" | "done"
    f_lines,       \* response.split("\n"), each line stripped
    f_cards,       \* the flashcards returned
    \* ---- RagSystem.process_document / KnowledgeBase.add_documents ----
    k_calls,       \* the process_document calls made, each with its outcome
    k_store        \* the collection: per id the chunk stored under it

p_vars == <<p_pc, p_content, p_level, p_style, p_hours, p_result>>
q_vars == <<q_pc, q_content, q_level, q_num, q_types, q_result>>
c_vars == <<c_pc, c_tokens, c_size, c_overlap, c_max, c_start, c_chunks>>
g_vars == <<g_pc, g_goals, g_idx, g_calls, g_content, g_result>>
w_vars == <<w_call, w_cache, w_now, w_duration, w_running, w_fetches>>
s_vars ==
    <<s_pc, s_engine, s_config, s_response, s_log, s_times, s_rate,
      s_latency, s_result>>
f_vars == <<f_pc, f_lines, f_cards>>
k_vars == <<k_calls, k_store>>
vars == <<p_vars, q_vars, c_vars, g_vars, w_vars, s_vars, f_vars, k_vars>>

\* ------------------------------------------------------------------------
\* Generic helpers
\* ------------------------------------------------------------------------

SeqsUpTo(S, n) == UNION {[1..k -> S] : k \in 0..n}

RECURSIVE SumSeq(_)
SumSeq(s) == IF s = <<>> THEN 0 ELSE Head(s) + SumSeq(Tail(s))

Abs(x) == IF x < 0 THEN -x ELSE x

Min2(a, b) == IF a < b THEN a ELSE b

Max2(a, b) == IF a > b THEN a ELSE b

\* ------------------------------------------------------------------------
\* Bounds of the model
\* ------------------------------------------------------------------------

MaxContent == 3        \* longest content list given to _structure_path

\* ------------------------------------------------------------------------
\* LearningPathGenerator._structure_path
\* ------------------------------------------------------------------------

\* difficulty_levels (learning_path.py:85)
difficulty_levels == <<"beginner", "intermediate", "advanced", "expert">>

Levels == {difficulty_levels[i] : i \in 1..Len(difficulty_levels)}

\* an item whose metadata has no "difficulty" key
NoDifficulty == "<absent>"

\* an item whose metadata["difficulty"] is outside the four levels
OtherDifficulty == "guru"

DifficultyValues == Levels \cup {NoDifficulty, OtherDifficulty}

\* a user_profile["level"] that is not one of the four levels
OtherLevel == "novice"

LearningStyles == {"visual", "auditory", "reading", "kinesthetic"}

\* max_duration_hours is None
NoBudget == -1

\* float("inf")
Infinity == -2

\* values of max_duration_hours * 60 the model tries
BudgetMinutes == {0, 30, 36, 40, 72, 75, 100, 117}

\* item["metadata"].get("difficulty", "intermediate")   (line 89)
ItemLevel(d) == IF d = NoDifficulty THEN "intermediate" ELSE d

\* difficulty_levels.index(level)   (line 93); 0 stands for ValueError
LevelIndex(level) ==
    IF level \in Levels
    THEN CHOOSE i \in 1..Len(difficulty_levels) : difficulty_levels[i] = level
    ELSE 0

\* content_by_level[level] after the loop of lines 88-90: the indices of the
\* items of that level, in input order
RECURSIVE BucketFrom(_, _, _)
BucketFrom(content, level, i) ==
    IF i > Len(content) THEN <<>>
    ELSE IF ItemLevel(content[i]) = level
         THEN <<i>> \o BucketFrom(content, level, i + 1)
         ELSE BucketFrom(content, level, i + 1)

content_by_level(content, level) == BucketFrom(content, level, 1)

\* max_duration   (line 98): None and 0 are both falsy
max_duration(hours60) ==
    IF hours60 = NoBudget \/ hours60 = 0 THEN Infinity ELSE hours60

\* current_duration + activity["duration"] > max_duration   (line 121)
OverBudget(total, maxd) == maxd # Infinity /\ total > maxd

\* current_duration >= max_duration   (line 131)
BudgetReached(total, maxd) == maxd # Infinity /\ total >= maxd

\* activity["duration"] of _create_activity   (lines 149-163)
ActivityDuration(style) ==
    CASE style = "visual"   -> 36      \* 30 * 1.2
      [] style = "auditory" -> 33      \* 30 * 1.1
      [] style = "reading"  -> 30
      [] OTHER              -> 39      \* 30 * 1.3

\* activity["type"] of _create_activity   (lines 152-162)
ActivityType(style) ==
    CASE style = "visual"   -> "video_lesson"
      [] style = "auditory" -> "audio_lecture"
      [] style = "reading"  -> "text_material"
      [] OTHER              -> "interactive_exercise"

\* Names bound in the scope of _structure_path: its parameters and locals
\* (lines 76-132), and the globals of the module (lines 5-11).
StructurePathNames ==
    {"self", "content", "user_profile", "learning_goals", "max_duration_hours",
     "difficulty_levels", "content_by_level", "item", "level", "start_level_idx",
     "modules", "current_duration", "max_duration", "level_idx", "level_content",
     "module", "content_item", "activity",
     "json", "Any", "Dict", "List", "Optional", "RagSystem",
     "LearningPathGenerator"}

\* Evaluating the f-string of the module title (line 109) reads the name
\* course_material
TitleResolves == "course_material" \in StructurePathNames

\* The inner loop of lines 117-126 over level_content[k..]: the activities
\* appended to the module, given the running total on entry
RECURSIVE PackActivities(_, _, _, _, _)
PackActivities(bucket, k, style, total, maxd) ==
    IF k > Len(bucket) THEN <<>>
    ELSE LET d == ActivityDuration(style)
         IN  IF OverBudget(total + d, maxd) THEN <<>>
             ELSE <<[item |-> bucket[k], type |-> ActivityType(style),
                     duration |-> d]>>
                  \o PackActivities(bucket, k + 1, style, total + d, maxd)

ActivityDurations(acts) == [i \in 1..Len(acts) |-> acts[i].duration]

Raised(name) == [status |-> name, modules |-> <<>>, total_duration |-> 0]

\* The loop of lines 100-132 from level index idx on, and the return of
\* lines 134-140
RECURSIVE BuildModules(_, _, _, _, _, _)
BuildModules(content, idx, style, modules, total, maxd) ==
    IF idx > Len(difficulty_levels)
    THEN [status |-> "path", modules |-> modules, total_duration |-> total]
    ELSE LET level  == difficulty_levels[idx]
             bucket == content_by_level(content, level)
         IN  IF bucket = <<>>
             THEN BuildModules(content, idx + 1, style, modules, total, maxd)
             ELSE IF ~TitleResolves THEN Raised("NameError")
             ELSE LET acts == PackActivities(bucket, 1, style, total, maxd)
                      dur  == SumSeq(ActivityDurations(acts))
                      mods == IF acts # <<>>
                              THEN Append(modules,
                                     [difficulty |-> level,
                                      activities |-> acts,
                                      estimated_duration |-> dur])
                              ELSE modules
                  IN  IF BudgetReached(total + dur, maxd)
                      THEN [status |-> "path", modules |-> mods,
                            total_duration |-> total + dur]
                      ELSE BuildModules(content, idx + 1, style, mods,
                                        total + dur, maxd)

\* _structure_path(content, user_profile, learning_goals, max_duration_hours)
StructurePathResult(content, level, style, hours60) ==
    IF \E i \in 1..Len(content) : ItemLevel(content[i]) \notin Levels
    THEN Raised("KeyError")                       \* line 90
    ELSE IF LevelIndex(level) = 0
    THEN Raised("ValueError")                     \* line 93
    ELSE BuildModules(content, LevelIndex(level), style, <<>>, 0,
                      max_duration(hours60))

PathIdle ==
    /\ p_pc = "idle"
    /\ p_content = <<>>
    /\ p_level = "beginner"
    /\ p_style = "reading"
    /\ p_hours = NoBudget
    /\ p_result = Raised("none")

InitPathCall ==
    /\ p_pc = "call"
    /\ p_content \in SeqsUpTo(DifficultyValues, MaxContent)
    /\ p_level \in Levels \cup {OtherLevel}
    /\ p_style \in LearningStyles
    /\ p_hours \in BudgetMinutes \cup {NoBudget}
    /\ p_result = Raised("none")

StructurePath ==
    /\ p_pc = "call"
    /\ p_pc' = "done"
    /\ p_result' = StructurePathResult(p_content, p_level, p_style, p_hours)
    /\ UNCHANGED <<p_content, p_level, p_style, p_hours>>
    /\ UNCHANGED <<q_vars, c_vars, g_vars, w_vars, s_vars, f_vars, k_vars>>

\* ------------------------------------------------------------------------
\* AdaptiveQuizGenerator
\* ------------------------------------------------------------------------

MaxQuizItems == 2      \* longest content list retrieved for a quiz
MaxQuestions == 5      \* largest num_questions
MaxTypes == 2          \* longest question_types list
MaxSelectItems == 3    \* longest list given to _select_content_by_difficulty

\* the question types _generate_questions distinguishes (lines 104-109)
QuestionTypes == {"multiple_choice", "true_false", "short_answer"}

\* a question_types entry outside the three (falls to the else branch)
OtherType == "essay"

\* question_types is None
NoTypes == <<"<none>">>

\* the default of line 37
DefaultTypes == <<"multiple_choice", "true_false", "short_answer">>

\* user levels tried for whole quizzes (hundredths)
QuizLevels == {0, 29, 30, 50, 70, 100}

\* user levels / targets tried for the pure functions (hundredths)
AllLevels == 0..100

\* a variant whose first threshold is inclusive
LevelToDifficulty_Inclusive(level) ==
    IF level <= 30 THEN "beginner"
    ELSE IF level < 60 THEN "intermediate"
    ELSE IF level < 80 THEN "advanced"
    ELSE "expert"

\* _level_to_difficulty   (lines 78-87); level in hundredths
LevelToDifficulty(level) ==
    IF level < 30 THEN "beginner"
    ELSE IF level < 60 THEN "intermediate"
    ELSE IF level < 80 THEN "advanced"
    ELSE "expert"

\* difficulty_to_number(x["metadata"].get("difficulty", "intermediate")),
\* in hundredths   (lines 182-188, 194)
difficulty_to_number(d) ==
    CASE d = "beginner"     -> 20
      [] d = "intermediate" -> 50
      [] d = "advanced"     -> 70
      [] d = "expert"       -> 90
      [] OTHER              -> 50

\* abs(a - t) is evaluated in IEEE-754 doubles (line 193).  Two anchors a, b
\* at different decimal distances from t differ by at least 0.01, which no
\* rounding can reorder; at the targets where two anchors are at the same
\* decimal distance the doubles are
\*   t = 0.35: abs(0.2-t) = 0.14999999999999997, abs(0.5-t) = 0.15000000000000002
\*   t = 0.45: abs(0.2-t) = 0.25,                abs(0.7-t) = 0.24999999999999994
\*   t = 0.55: abs(0.2-t) = 0.35000000000000003, abs(0.9-t) = 0.35
\*   t = 0.60: abs(0.5-t) = 0.09999999999999998, abs(0.7-t) = 0.09999999999999998
\*   t = 0.70: abs(0.5-t) = 0.19999999999999996, abs(0.9-t) = 0.20000000000000007
\*   t = 0.80: abs(0.7-t) = 0.10000000000000009, abs(0.9-t) = 0.09999999999999998
\* RoundingError is the sign of (the double computed - the double nearest the
\* decimal distance) at these points.
RoundingError(a, t) ==
    CASE t = 35 /\ a = 20 -> -1
      [] t = 35 /\ a = 50 -> 1
      [] t = 45 /\ a = 70 -> -1
      [] t = 55 /\ a = 20 -> 1
      [] t = 60 /\ a = 50 -> -1
      [] t = 60 /\ a = 70 -> -1
      [] t = 70 /\ a = 50 -> -1
      [] t = 70 /\ a = 90 -> 1
      [] t = 80 /\ a = 70 -> 1
      [] t = 80 /\ a = 90 -> -1
      [] OTHER -> 0

\* the key of min(): abs(difficulty_to_number(...) - target_difficulty)
\* (lines 193-196), on a scale that keeps the order of the doubles
DistanceKey(d, target) ==
    LET a == difficulty_to_number(d)
    IN  4 * Abs(a - target) + RoundingError(a, target)

\* a variant that lets a later item of equal key replace the best so far
RECURSIVE MinFrom_LastWins(_, _, _, _)
MinFrom_LastWins(content, target, i, best) ==
    IF i > Len(content) THEN best
    ELSE IF DistanceKey(content[i], target) <= DistanceKey(content[best], target)
         THEN MinFrom_LastWins(content, target, i + 1, i)
         ELSE MinFrom_LastWins(content, target, i + 1, best)

\* min(content, key=...) over content[i..]: Python keeps the first item
\* whose key is strictly smaller than every key before it   (lines 191-197)
RECURSIVE MinFrom(_, _, _, _)
MinFrom(content, target, i, best) ==
    IF i > Len(content) THEN best
    ELSE IF DistanceKey(content[i], target) < DistanceKey(content[best], target)
         THEN MinFrom(content, target, i + 1, i)
         ELSE MinFrom(content, target, i + 1, best)

\* a variant that falls back to a placeholder instead of raising
SelectRaises_Default(content) == FALSE

\* min() of an empty sequence raises ValueError   (line 191)
SelectRaises(content) == content = <<>>

\* _select_content_by_difficulty: the index of the item returned, 0 when
\* the call raises
SelectContentByDifficulty(content, target) ==
    IF SelectRaises(content) THEN 0 ELSE MinFrom(content, target, 2, 1)

\* a variant that clamps the index instead of wrapping around
QuestionTypeAt_Clamped(types, i) == types[Min2(i, Len(types) - 1) + 1]

\* question_types[i % len(question_types)]   (line 101); i is 0-based
QuestionTypeAt(types, i) == types[(i % Len(types)) + 1]

\* the "points" of the questions built by lines 115-174
QuestionPoints(kind) ==
    CASE kind = "multiple_choice" -> 10
      [] kind = "true_false"      -> 5
      [] OTHER                    -> 15

\* the "type" field of the question built for a requested type: anything
\* but multiple_choice and true_false is a short_answer   (lines 104-109)
BuiltType(requested) ==
    IF requested \in {"multiple_choice", "true_false"} THEN requested
    ELSE "short_answer"

\* one iteration of the loop of lines 99-111
GenerateQuestion(content, types, level, i) ==
    IF Len(types) = 0 THEN [status |-> "ZeroDivisionError"]
    ELSE IF SelectContentByDifficulty(content, level) = 0
         THEN [status |-> "ValueError"]
         ELSE [status |-> "ok",
               type |-> BuiltType(QuestionTypeAt(types, i)),
               points |-> QuestionPoints(BuiltType(QuestionTypeAt(types, i))),
               difficulty |-> level,
               item |-> SelectContentByDifficulty(content, level)]

\* _generate_questions: iterations i, i+1, ..., num_questions - 1
RECURSIVE GenerateQuestionsFrom(_, _, _, _, _, _)
GenerateQuestionsFrom(content, num, types, level, i, questions) ==
    IF i >= num THEN [status |-> "ok", questions |-> questions]
    ELSE LET q == GenerateQuestion(content, types, level, i)
         IN  IF q.status # "ok"
             THEN [status |-> q.status, questions |-> <<>>]
             ELSE GenerateQuestionsFrom(content, num, types, level, i + 1,
                                        Append(questions, q))

QuizOutcome(op, status, questions, selected, category) ==
    [op |-> op, status |-> status, questions |-> questions,
     selected |-> selected, category |-> category]

\* generate_adaptive_quiz   (lines 36-61), given the content that
\* _gather_content retrieved
GenerateAdaptiveQuizResult(content, level, num, types) ==
    LET qtypes == IF types = NoTypes THEN DefaultTypes ELSE types
        gen    == GenerateQuestionsFrom(content, num, qtypes, level, 0, <<>>)
    IN  QuizOutcome("quiz", IF gen.status = "ok" THEN "quiz" ELSE gen.status,
                    gen.questions, 0, "")

QuizIdle ==
    /\ q_pc = "idle"
    /\ q_content = <<>>
    /\ q_level = 0
    /\ q_num = 0
    /\ q_types = NoTypes
    /\ q_result = QuizOutcome("none", "none", <<>>, 0, "")

InitQuizCall ==
    /\ q_pc = "quiz"
    /\ q_content \in SeqsUpTo(DifficultyValues, MaxQuizItems)
    /\ q_level \in QuizLevels
    /\ q_num \in 0..MaxQuestions
    /\ q_types \in SeqsUpTo(QuestionTypes \cup {OtherType}, MaxTypes) \cup {NoTypes}
    /\ q_result = QuizOutcome("none", "none", <<>>, 0, "")

InitSelectCall ==
    /\ q_pc = "pure"
    /\ q_content \in SeqsUpTo(DifficultyValues, MaxSelectItems)
    /\ q_level \in AllLevels
    /\ q_num = 0
    /\ q_types = NoTypes
    /\ q_result = QuizOutcome("none", "none", <<>>, 0, "")

GenerateAdaptiveQuiz ==
    /\ q_pc = "quiz"
    /\ q_pc' = "done"
    /\ q_result' = GenerateAdaptiveQuizResult(q_content, q_level, q_num, q_types)
    /\ UNCHANGED <<q_content, q_level, q_num, q_types>>
    /\ UNCHANGED <<p_vars, c_vars, g_vars, w_vars, s_vars, f_vars, k_vars>>

SelectContent ==
    /\ q_pc = "pure"
    /\ q_pc' = "done"
    /\ q_result' =
         LET k == SelectContentByDifficulty(q_content, q_level)
         IN  QuizOutcome("select", IF k = 0 THEN "ValueError" ELSE "ok",
                         <<>>, k, "")
    /\ UNCHANGED <<q_content, q_level, q_num, q_types>>
    /\ UNCHANGED <<p_vars, c_vars, g_vars, w_vars, s_vars, f_vars, k_vars>>

LevelToDifficultyCall ==
    /\ q_pc = "pure"
    /\ q_pc' = "done"
    /\ q_result' = QuizOutcome("level", "ok", <<>>, 0, LevelToDifficulty(q_level))
    /\ UNCHANGED <<q_content, q_level, q_num, q_types>>
    /\ UNCHANGED <<p_vars, c_vars, g_vars, w_vars, s_vars, f_vars, k_vars>>


\* ------------------------------------------------------------------------
\* DocumentProcessor._chunk_text
\* ------------------------------------------------------------------------

MaxTokens == 8         \* longest token sequence chunked
IterationCap == 5      \* cap on loop iterations explored (above every max_chunks tried)

\* The characters of a text are abstracted to three classes: a word
\* character (\w), a sentence terminator ([.!?]) and whitespace (\s).
\* The tokenizer is abstracted to one token per character, so that
\* decode(tokens[a:b]) is the text between the two positions.
WordChar == "w"
Terminator == "."
Space == " "
Chars == {WordChar, Terminator, Space}

\* self.chunk_size, self.chunk_overlap, self.max_chunks tried   (lines 20-22)
ChunkSizes == {1, 2}
ChunkOverlaps == {0, 1, 2}
MaxChunksValues == {0, 1, 2, 3}

\* _chunk_text is called on the result of _clean_text (lines 69-100):
\* whitespace runs are single spaces, the text is stripped, and a
\* punctuation mark is never directly followed by a word character
IsCleaned(text) ==
    /\ text # <<>> => (text[1] # Space /\ text[Len(text)] # Space)
    /\ \A i \in 1..(Len(text) - 1) :
         /\ ~(text[i] = Space /\ text[i + 1] = Space)
         /\ ~(text[i] = Terminator /\ text[i + 1] = WordChar)

\* token_size = self.chunk_size * 4   (line 111)
token_size(size) == size * 4

\* token_overlap = self.chunk_overlap * 4   (line 112)
token_overlap(overlap) == overlap * 4

\* Python's s[a:b] bounds for a sequence of length n (0-based, half open)
SliceBound(k, n) == IF k < 0 THEN Max2(k + n, 0) ELSE Min2(k, n)

\* tokens[start:end]   (line 118)
PySlice(s, a, b) ==
    LET lo == SliceBound(a, Len(s))
        hi == SliceBound(b, Len(s))
    IN  IF lo >= hi THEN <<>> ELSE SubSeq(s, lo + 1, hi)

\* the first position at or after i that holds no whitespace (Len(s)+1 if none)
RECURSIVE SkipSpaces(_, _)
SkipSpaces(s, i) ==
    IF i > Len(s) \/ s[i] # Space THEN i ELSE SkipSpaces(s, i + 1)

\* [.!?]\s+\w matches at position i of s; the \w is then at SkipSpaces(s, i+1)
BoundaryAt(s, i) ==
    /\ s[i] = Terminator
    /\ i + 1 <= Len(s)
    /\ s[i + 1] = Space
    /\ SkipSpaces(s, i + 1) <= Len(s)
    /\ s[SkipSpaces(s, i + 1)] = WordChar

\* re.search(r"[.!?]\s+\w", chunk): match.end() - 1 as a 1-based position
\* (the position of the \w), 0 when there is no match   (line 126)
FirstBoundary(s) ==
    IF \E i \in 1..Len(s) : BoundaryAt(s, i)
    THEN LET i == CHOOSE i \in 1..Len(s) :
                    /\ BoundaryAt(s, i)
                    /\ \A k \in 1..(i - 1) : ~BoundaryAt(s, k)
         IN  SkipSpaces(s, i + 1)
    ELSE 0

\* [.!?]\s+\w[^.!?]*$ matches at position i of s: no terminator follows the \w
LastBoundaryAt(s, i) ==
    /\ BoundaryAt(s, i)
    /\ \A k \in (SkipSpaces(s, i + 1) + 1)..Len(s) : s[k] # Terminator

\* re.search(r"[.!?]\s+\w[^.!?]*$", chunk): match.end(), 0 when there is no
\* match.  [^.!?]*$ runs to the end of the chunk, so match.end() is
\* len(chunk)   (line 132)
LastBoundaryEnd(s) ==
    IF \E i \in 1..Len(s) : LastBoundaryAt(s, i) THEN Len(s) ELSE 0

\* a variant that cuts at the start of the match, keeping the terminator
TrimLeading_FromMatchStart(s) ==
    IF FirstBoundary(s) = 0 THEN s
    ELSE SubSeq(s, (CHOOSE i \in 1..Len(s) :
                        /\ BoundaryAt(s, i)
                        /\ \A k \in 1..(i - 1) : ~BoundaryAt(s, k)), Len(s))

\* chunk[match.end() - 1:]   (lines 126-128)
TrimLeading(s) ==
    IF FirstBoundary(s) = 0 THEN s ELSE SubSeq(s, FirstBoundary(s), Len(s))

\* chunk[:match.end() - 1]   (lines 132-134)
TrimTrailing(s) ==
    IF LastBoundaryEnd(s) = 0 THEN s ELSE SubSeq(s, 1, LastBoundaryEnd(s) - 1)

\* str.strip()   (line 136)
RECURSIVE Strip(_)
Strip(s) ==
    IF s = <<>> THEN s
    ELSE IF Head(s) = Space THEN Strip(Tail(s))
    ELSE IF s[Len(s)] = Space THEN Strip(SubSeq(s, 1, Len(s) - 1))
    ELSE s

\* the chunk appended by one iteration   (lines 117-136)
ChunkText(tokens, start, end) ==
    LET decoded == PySlice(tokens, start, end)
        lead    == IF start > 0 THEN TrimLeading(decoded) ELSE decoded
        trail   == IF end < Len(tokens) THEN TrimTrailing(lead) ELSE lead
    IN  Strip(trail)

\* a variant that takes `end` as the last token of the slice, not the one after
NextStart_SkipOne(end, overlap) == end + 1 - token_overlap(overlap)

\* start = end - token_overlap   (line 139)
NextStart(end, overlap) == end - token_overlap(overlap)

\* a variant without the limit
MaxChunksReached_Never(n, maxc) == FALSE

\* len(chunks) >= self.max_chunks   (line 142)
MaxChunksReached(n, maxc) == n >= maxc

ChunkIdle ==
    /\ c_pc = "idle"
    /\ c_tokens = <<>>
    /\ c_size = 1
    /\ c_overlap = 0
    /\ c_max = 0
    /\ c_start = 0
    /\ c_chunks = <<>>

InitChunkCall ==
    /\ c_pc = "loop"
    /\ c_tokens \in {t \in SeqsUpTo(Chars, MaxTokens) : IsCleaned(t)}
    /\ c_size \in ChunkSizes
    /\ c_overlap \in ChunkOverlaps
    /\ c_max \in MaxChunksValues
    /\ c_start = 0
    /\ c_chunks = <<>>

\* one iteration of the while loop   (lines 115-143)
ChunkIter ==
    /\ c_pc = "loop"
    /\ c_start < Len(c_tokens)
    /\ Len(c_chunks) < IterationCap
    /\ LET end == c_start + token_size(c_size)
       IN  /\ c_chunks' = Append(c_chunks,
                            [start |-> c_start, end |-> end,
                             text |-> ChunkText(c_tokens, c_start, end)])
           /\ c_start' = NextStart(end, c_overlap)
    /\ c_pc' = IF MaxChunksReached(Len(c_chunks'), c_max) THEN "done" ELSE "loop"
    /\ UNCHANGED <<c_tokens, c_size, c_overlap, c_max>>
    /\ UNCHANGED <<p_vars, q_vars, g_vars, w_vars, s_vars, f_vars, k_vars>>

\* the while condition fails and the chunks are returned   (lines 115, 145)
ChunkReturn ==
    /\ c_pc = "loop"
    /\ c_start >= Len(c_tokens)
    /\ c_pc' = "done"
    /\ UNCHANGED <<c_tokens, c_size, c_overlap, c_max, c_start, c_chunks>>
    /\ UNCHANGED <<p_vars, q_vars, g_vars, w_vars, s_vars, f_vars, k_vars>>

\* ------------------------------------------------------------------------
\* LearningPathGenerator._gather_content
\* ------------------------------------------------------------------------

MaxGoals == 3          \* longest learning_goals list
MaxResults == 2        \* longest result list of one rag.search call

Goals == {"g1", "g2"}

\* the documents the knowledge base can return
Documents == {"d1", "d2"}

\* the exceptions a failing rag.search raises
SearchErrors == {"ConnectionError", "TimeoutError"}

\* the keys of one result of RagSystem.search, which returns what
\* KnowledgeBase.search builds   (rag/knowledge_base.py:104-111)
SearchResultKeys == {"text", "metadata", "id", "distance"}

\* the keys that the loop body reads from a result   (lines 67-69)
GatherReadsKeys == {"text", "metadata", "score"}

\* the keys whose lookup raises KeyError while the results are turned into
\* items: none when there is no result to read   (lines 64-72)
MissingKeys(results) ==
    IF results = <<>> THEN {} ELSE GatherReadsKeys \ SearchResultKeys

\* the items appended for one goal   (lines 64-72)
TaggedItems(results, goal) ==
    [i \in 1..Len(results) |-> [text |-> results[i], learning_goal |-> goal]]

\* the outcome of `await self._gather_content(...)`   (lines 36, 74)
GatherOutcome(status, content) == [status |-> status, content |-> content]

\* a variant of the failure path that swallows the error and returns what
\* was gathered so far
SearchFailed_Swallowed(content, error) == GatherOutcome("ok", content)

\* rag.search raised: nothing catches it in _gather_content or in
\* generate_path, so it leaves both   (lines 36, 56-62)
SearchFailed(content, error) == GatherOutcome(error, <<>>)

GatherIdle ==
    /\ g_pc = "idle"
    /\ g_goals = <<>>
    /\ g_idx = 0
    /\ g_calls = <<>>
    /\ g_content = <<>>
    /\ g_result = GatherOutcome("none", <<>>)

InitGatherCall ==
    /\ g_pc = "loop"
    /\ g_goals \in SeqsUpTo(Goals, MaxGoals)
    /\ g_idx = 0
    /\ g_calls = <<>>
    /\ g_content = <<>>
    /\ g_result = GatherOutcome("none", <<>>)

\* one iteration of `for goal in learning_goals` in which rag.search returns
\* a list of results   (lines 55-72)
GatherSearchReturns ==
    /\ g_pc = "loop"
    /\ g_idx < Len(g_goals)
    /\ \E results \in SeqsUpTo(Documents, MaxResults) :
         LET goal == g_goals[g_idx + 1]
         IN  /\ g_calls' = Append(g_calls, [goal |-> goal, status |-> "ok",
                                            results |-> results])
             /\ IF MissingKeys(results) # {}
                THEN /\ g_pc' = "done"
                     /\ g_result' = GatherOutcome("KeyError", <<>>)
                     /\ UNCHANGED g_content
                ELSE /\ g_pc' = "loop"
                     /\ g_content' = g_content \o TaggedItems(results, goal)
                     /\ UNCHANGED g_result
    /\ g_idx' = g_idx + 1
    /\ UNCHANGED g_goals
    /\ UNCHANGED <<p_vars, q_vars, c_vars, w_vars, s_vars, f_vars, k_vars>>

\* one iteration in which rag.search raises   (lines 56-62)
GatherSearchRaises ==
    /\ g_pc = "loop"
    /\ g_idx < Len(g_goals)
    /\ \E error \in SearchErrors :
         /\ g_calls' = Append(g_calls, [goal |-> g_goals[g_idx + 1],
                                        status |-> error, results |-> <<>>])
         /\ g_result' = SearchFailed(g_content, error)
    /\ g_pc' = "done"
    /\ g_idx' = g_idx + 1
    /\ UNCHANGED <<g_goals, g_content>>
    /\ UNCHANGED <<p_vars, q_vars, c_vars, w_vars, s_vars, f_vars, k_vars>>

\* the loop is over: return content   (line 74)
GatherReturn ==
    /\ g_pc = "loop"
    /\ g_idx = Len(g_goals)
    /\ g_pc' = "done"
    /\ g_result' = GatherOutcome("ok", g_content)
    /\ UNCHANGED <<g_goals, g_idx, g_calls, g_content>>
    /\ UNCHANGED <<p_vars, q_vars, c_vars, w_vars, s_vars, f_vars, k_vars>>

\* ------------------------------------------------------------------------
\* WebSearch.search and its cache (sentris_rag/web/search.py)
\* ------------------------------------------------------------------------

MaxTime == 3           \* last clock value explored

\* the search calls made on the one WebSearch instance
Calls == {"c1", "c2"}
NoCall == "<no call>"

\* engine arguments: None, a supported engine, two unsupported ones
NoEngine == "<None>"
EngineArgs == {NoEngine, "google", "bing", "google:x"}
default_engine == "duckduckgo"
Queries == {"b", "x:b"}

\* num_results arguments; 0 stands for None as well (both are falsy)
NumArgs == {0, 1, 3}
max_results == 2

\* values of cache_duration the model tries
CacheDurations == {0, 2}

\* engine = engine or self.default_engine   (line 45)
EngineOf(arg) == IF arg = NoEngine THEN default_engine ELSE arg

\* num_results = min(num_results or self.max_results, self.max_results)
\* (line 46)
NumOf(arg) == Min2(IF arg = 0 THEN max_results ELSE arg, max_results)

\* cache_key = f"{engine}:{query}:{num_results}"   (line 49)
cache_key(engine, query, num) ==
    engine \o ":" \o query \o ":" \o ToString(num)

\* the branches of lines 55-58
SupportedEngines == {"google", "duckduckgo"}

\* a variant that also serves an entry whose age equals cache_duration
IsFresh_Inclusive(entry, now, duration) == now - entry.timestamp <= duration

\* datetime.utcnow() - entry["timestamp"] < timedelta(seconds=cache_duration)
\* (lines 192-194)
IsFresh(entry, now, duration) == now - entry.timestamp < duration

\* the keys of the dict an engine search returns   (lines 101-109, 145-149)
PayloadKeys == {"results", "total_results", "search_time"}

\* the dict returned by the n-th engine search, after _apply_filters when
\* filter_criteria is given   (lines 62-64); NoPayload stands for None
Payload(n, filtered) == [fetch |-> n, filtered |-> filtered]
NoPayload == Payload(0, FALSE)

\* `if cached:` (line 51): None is falsy, a dict is truthy unless empty
Truthy(data) == data # NoPayload /\ PayloadKeys # {}

\* the positions of a call: not yet made; the statements of
\* _get_from_cache (190, 191-195, 197); the engine dispatch (55-60); the
\* awaited engine search; the statements of _add_to_cache and _clean_cache
\* (62-67/202, 209-214, 215-216); returned or raised
Positions == {"new", "get", "read", "evict", "dispatch", "await",
              "put", "clean", "purge", "done"}

\* a variant in which a call can be suspended after every statement
YieldPoints_EveryStatement == Positions

\* where a coroutine gives the event loop to other calls: before it is
\* started, at the await of the engine search (lines 56, 58), and once it
\* has returned or raised.  search has no other await.
YieldPoints == {"new", "await", "done"}

WebOutcome(status, data, cached, age) ==
    [status |-> status, data |-> data, cached |-> cached, age |-> age]

NewCall ==
    [pc |-> "new", engine |-> default_engine, query |-> "b", num |-> max_results,
     filter |-> FALSE, key |-> "", expired |-> {}, fetched |-> 0,
     data |-> NoPayload,
     result |-> WebOutcome("none", NoPayload, FALSE, 0)]

WebIdle ==
    /\ w_call = [c \in Calls |-> NewCall]
    /\ w_cache = [k \in {} |-> 0]
    /\ w_now = 0
    /\ w_duration = 0
    /\ w_running = NoCall
    /\ w_fetches = <<>>

InitWebSearch ==
    /\ w_call = [c \in Calls |-> NewCall]
    /\ w_cache = [k \in {} |-> 0]
    /\ w_now = 0
    /\ w_duration \in CacheDurations
    /\ w_running = NoCall
    /\ w_fetches = <<>>

\* the event loop runs one call at a time, up to its next yield point
CanRun(c) == w_running \in {NoCall, c}

\* call c moves to position pc with the changes in `changes`
Goto(c, pc, changes) ==
    /\ w_call' = [w_call EXCEPT ![c] = [f \in DOMAIN w_call[c] |->
                     IF f = "pc" THEN pc
                     ELSE IF f \in DOMAIN changes THEN changes[f]
                     ELSE w_call[c][f]]]
    /\ w_running' = IF pc \in YieldPoints THEN NoCall ELSE c

\* call c ends with an outcome
Finish(c, outcome) == Goto(c, "done", [result |-> outcome])

\* the dict without key k   (del self.cache[k])
Without(cache, keys) == [k \in (DOMAIN cache) \ keys |-> cache[k]]

\* search is called: lines 45-49
WebSearchCall(c) ==
    /\ w_call[c].pc = "new"
    /\ CanRun(c)
    /\ \E e \in EngineArgs, q \in Queries, n \in NumArgs, f \in BOOLEAN :
         Goto(c, "get", [engine |-> EngineOf(e), query |-> q, num |-> NumOf(n),
                         filter |-> f,
                         key |-> cache_key(EngineOf(e), q, NumOf(n))])
    /\ UNCHANGED <<w_cache, w_now, w_duration, w_fetches>>
    /\ UNCHANGED <<p_vars, q_vars, c_vars, g_vars, s_vars, f_vars, k_vars>>

\* `if key in self.cache:`   (line 190; line 198 when it is not)
CacheTest(c) ==
    /\ w_call[c].pc = "get"
    /\ CanRun(c)
    /\ IF w_call[c].key \in DOMAIN w_cache
       THEN Goto(c, "read", <<>>)
       ELSE Goto(c, "dispatch", <<>>)
    /\ UNCHANGED <<w_cache, w_now, w_duration, w_fetches>>
    /\ UNCHANGED <<p_vars, q_vars, c_vars, g_vars, s_vars, f_vars, k_vars>>

\* entry = self.cache[key] and the age test (lines 191-195); a fresh entry's
\* data goes back to search, which returns it when truthy (lines 50-52)
CacheRead(c) ==
    /\ w_call[c].pc = "read"
    /\ CanRun(c)
    /\ LET key == w_call[c].key
       IN  IF key \notin DOMAIN w_cache
           THEN Finish(c, WebOutcome("KeyError", NoPayload, FALSE, 0))
           ELSE IF IsFresh(w_cache[key], w_now, w_duration)
           THEN IF Truthy(w_cache[key].data)
                THEN Finish(c, WebOutcome("ok", w_cache[key].data, TRUE,
                                          w_now - w_cache[key].timestamp))
                ELSE Goto(c, "dispatch", <<>>)
           ELSE Goto(c, "evict", <<>>)
    /\ UNCHANGED <<w_cache, w_now, w_duration, w_fetches>>
    /\ UNCHANGED <<p_vars, q_vars, c_vars, g_vars, s_vars, f_vars, k_vars>>

\* del self.cache[key]   (line 197)
CacheEvict(c) ==
    /\ w_call[c].pc = "evict"
    /\ CanRun(c)
    /\ IF w_call[c].key \notin DOMAIN w_cache
       THEN /\ Finish(c, WebOutcome("KeyError", NoPayload, FALSE, 0))
            /\ UNCHANGED w_cache
       ELSE /\ Goto(c, "dispatch", <<>>)
            /\ w_cache' = Without(w_cache, {w_call[c].key})
    /\ UNCHANGED <<w_now, w_duration, w_fetches>>
    /\ UNCHANGED <<p_vars, q_vars, c_vars, g_vars, s_vars, f_vars, k_vars>>

\* the engine dispatch (lines 55-60): the engine search is started and
\* awaited, or ValueError is raised
Dispatch(c) ==
    /\ w_call[c].pc = "dispatch"
    /\ CanRun(c)
    /\ IF w_call[c].engine \in SupportedEngines
       THEN /\ w_fetches' = Append(w_fetches, w_call[c].key)
            /\ Goto(c, "await", [fetched |-> Len(w_fetches) + 1])
       ELSE /\ Finish(c, WebOutcome("ValueError", NoPayload, FALSE, 0))
            /\ UNCHANGED w_fetches
    /\ UNCHANGED <<w_cache, w_now, w_duration>>
    /\ UNCHANGED <<p_vars, q_vars, c_vars, g_vars, s_vars, f_vars, k_vars>>

\* the engine search returns: filters are applied and the entry is written
\* (lines 62-67, 202)
FetchReturns(c) ==
    /\ w_call[c].pc = "await"
    /\ CanRun(c)
    /\ LET data == Payload(w_call[c].fetched, w_call[c].filter)
       IN  /\ Goto(c, "clean", [data |-> data])
           /\ w_cache' = [k \in DOMAIN w_cache \cup {w_call[c].key} |->
                            IF k = w_call[c].key
                            THEN [data |-> data, timestamp |-> w_now]
                            ELSE w_cache[k]]
    /\ UNCHANGED <<w_now, w_duration, w_fetches>>
    /\ UNCHANGED <<p_vars, q_vars, c_vars, g_vars, s_vars, f_vars, k_vars>>

\* the engine search raises (transport error, Google API error): nothing in
\* search catches it   (lines 56-58, 86-87)
FetchRaises(c) ==
    /\ w_call[c].pc = "await"
    /\ CanRun(c)
    /\ Finish(c, WebOutcome("FetchError", NoPayload, FALSE, 0))
    /\ UNCHANGED <<w_cache, w_now, w_duration, w_fetches>>
    /\ UNCHANGED <<p_vars, q_vars, c_vars, g_vars, s_vars, f_vars, k_vars>>

\* _clean_cache collects the expired keys   (lines 209-214)
CacheClean(c) ==
    /\ w_call[c].pc = "clean"
    /\ CanRun(c)
    /\ Goto(c, "purge",
            [expired |-> {k \in DOMAIN w_cache :
                            w_now - w_cache[k].timestamp >= w_duration}])
    /\ UNCHANGED <<w_cache, w_now, w_duration, w_fetches>>
    /\ UNCHANGED <<p_vars, q_vars, c_vars, g_vars, s_vars, f_vars, k_vars>>

\* _clean_cache deletes them and search returns the results
\* (lines 215-216, 69)
CachePurge(c) ==
    /\ w_call[c].pc = "purge"
    /\ CanRun(c)
    /\ IF w_call[c].expired \subseteq DOMAIN w_cache
       THEN /\ Finish(c, WebOutcome("ok", w_call[c].data, FALSE, 0))
            /\ w_cache' = Without(w_cache, w_call[c].expired)
       ELSE /\ Finish(c, WebOutcome("KeyError", NoPayload, FALSE, 0))
            /\ w_cache' = Without(w_cache, w_call[c].expired)
    /\ UNCHANGED <<w_now, w_duration, w_fetches>>
    /\ UNCHANGED <<p_vars, q_vars, c_vars, g_vars, s_vars, f_vars, k_vars>>

\* time passes
Tick ==
    /\ w_now < MaxTime
    /\ w_now' = w_now + 1
    /\ UNCHANGED <<w_call, w_cache, w_duration, w_running, w_fetches>>
    /\ UNCHANGED <<p_vars, q_vars, c_vars, g_vars, s_vars, f_vars, k_vars>>

\* ------------------------------------------------------------------------
\* WebSearch.search over requests (web/search.py)
\* ------------------------------------------------------------------------

MaxHits == 2           \* most results in an engine response

\* engine arguments: None, the engines of self.search_engines, another one
SyncEngineArgs == {NoEngine, "google", "duckduckgo", "custom", "bing"}

\* self.search_engines   (lines 37-41)
search_engines == {"google", "duckduckgo", "custom"}

\* the config keys that the engine searches look for
ConfigKeys == {"google_api_key", "google_cx", "custom_search_url"}

\* how a page fetch of _extract_content ends: with text, or with a failure
PageOutcomes == {"text", "failed"}

\* how the network answers one search call: the engine request fails in
\* transport, comes back with an error status, or comes back with results,
\* for each of which the page fetch has an outcome
Responses ==
    {[kind |-> k, pages |-> <<>>] : k \in {"transport_error", "http_error"}}
        \cup {[kind |-> "ok", pages |-> p] : p \in SeqsUpTo(PageOutcomes, MaxHits)}

\* the key whose absence makes the engine search raise ValueError before
\* its try block   (lines 103-104, 183-184); "" when there is none
RequiredKey(engine) ==
    CASE engine = "google" -> "google_api_key"
      [] engine = "custom" -> "custom_search_url"
      [] OTHER -> ""

\* the keys read with self.config[...] inside the try block   (lines 109-110)
KeysReadInTry(engine) ==
    IF engine = "google" THEN {"google_api_key", "google_cx"} ELSE {}

\* the engine request is sent: no lookup raised before session.get
RequestSent(engine, config) == KeysReadInTry(engine) \subseteq config

\* session.get or raise_for_status raised, or a config lookup did
RaisedInTry(engine, config, response) ==
    \/ ~RequestSent(engine, config)
    \/ response.kind # "ok"

\* the list an engine search returns: `except Exception: return []`
\* (lines 132-134, 168-170, 212-214), else one result per item
EngineResults(engine, config, response) ==
    IF RaisedInTry(engine, config, response)
    THEN <<>>
    ELSE [i \in 1..Len(response.pages) |-> i]

\* _extract_content: the text, or "" when anything fails   (lines 254-275)
ExtractContent(outcome) == IF outcome = "text" THEN "text" ELSE ""

\* a variant that leaves out the results whose page fetch failed
RECURSIVE EnrichResults_DropFailed(_, _)
EnrichResults_DropFailed(results, response) ==
    IF results = <<>> THEN <<>>
    ELSE LET n    == Len(results)
             rest == EnrichResults_DropFailed(SubSeq(results, 1, n - 1),
                                              response)
         IN  IF response.pages[n] = "failed" THEN rest
             ELSE Append(rest, [hit |-> results[n], content |-> "text"])

\* _enrich_results   (lines 226-242)
EnrichResults(results, response) ==
    [i \in 1..Len(results) |->
        [hit |-> results[i], content |-> ExtractContent(response.pages[i])]]

\* what _enrich_results does on the network: per result a page fetch and a
\* call of _respect_rate_limit   (lines 230, 240, 255)
RECURSIVE EnrichLog(_)
EnrichLog(n) == IF n = 0 THEN <<>> ELSE <<"fetch", "limit">> \o EnrichLog(n - 1)

SyncOutcome(status, results) ==
    [status |-> status, results |-> results, total_found |-> Len(results)]

\* search   (lines 65-90): the result, and the rate-limit calls and HTTP
\* requests in the order they happen
SyncSearchResult(arg, config, response) ==
    LET engine  == IF arg = NoEngine THEN default_engine ELSE arg
        results == EngineResults(engine, config, response)
    IN  IF engine \notin search_engines
        THEN [out |-> SyncOutcome("ValueError", <<>>), log |-> <<>>]
        ELSE IF RequiredKey(engine) # "" /\ RequiredKey(engine) \notin config
        THEN [out |-> SyncOutcome("ValueError", <<>>), log |-> <<"limit">>]
        ELSE [out |-> SyncOutcome("ok", EnrichResults(results, response)),
              log |-> <<"limit">>
                        \o (IF RequestSent(engine, config)
                            THEN <<"request">> ELSE <<>>)
                        \o EnrichLog(Len(results))]

\* values of rate_limit and of the duration of a HTTP request
RateLimits == {0, 1, 2}
Latencies == {0, 1, 2}

\* time.time() when search is called: self.last_request is 0 at first
\* (line 46), and the clock is further from it than any rate_limit
StartTime == 5
FirstLastRequest == 0

\* _respect_rate_limit (lines 279-282): the time at which it returns, which
\* becomes self.last_request
AfterRateLimit(now, last_request, rate) ==
    IF now - last_request < rate THEN now + (rate - (now - last_request))
    ELSE now

\* the times of the events log[i..], given the clock and self.last_request:
\* a rate-limit call is stamped with the time it returns, a HTTP request
\* with the time it is sent
RECURSIVE Timeline(_, _, _, _, _, _)
Timeline(log, i, now, last_request, rate, latency) ==
    IF i > Len(log) THEN <<>>
    ELSE IF log[i] = "limit"
    THEN LET t == AfterRateLimit(now, last_request, rate)
         IN  <<t>> \o Timeline(log, i + 1, t, t, rate, latency)
    ELSE <<now>> \o Timeline(log, i + 1, now + latency, last_request, rate,
                             latency)

SyncIdle ==
    /\ s_pc = "idle"
    /\ s_engine = NoEngine
    /\ s_config = {}
    /\ s_response = [kind |-> "ok", pages |-> <<>>]
    /\ s_log = <<>>
    /\ s_times = <<>>
    /\ s_rate = 0
    /\ s_latency = 0
    /\ s_result = SyncOutcome("none", <<>>)

InitSyncCall ==
    /\ s_pc = "call"
    /\ s_engine \in SyncEngineArgs
    /\ s_config \in SUBSET ConfigKeys
    /\ s_response \in Responses
    /\ s_log = <<>>
    /\ s_times = <<>>
    /\ s_rate \in RateLimits
    /\ s_latency \in Latencies
    /\ s_result = SyncOutcome("none", <<>>)

\* one call of search   (lines 48-90)
SyncSearch ==
    /\ s_pc = "call"
    /\ s_pc' = "done"
    /\ s_result' = SyncSearchResult(s_engine, s_config, s_response).out
    /\ s_log' = SyncSearchResult(s_engine, s_config, s_response).log
    /\ s_times' = Timeline(s_log', 1, StartTime, FirstLastRequest, s_rate,
                           s_latency)
    /\ UNCHANGED <<s_engine, s_config, s_response, s_rate, s_latency>>
    /\ UNCHANGED <<p_vars, q_vars, c_vars, g_vars, w_vars, f_vars, k_vars>>

\* ------------------------------------------------------------------------
\* RagSystem._generate_flashcards
\* ------------------------------------------------------------------------

MaxLines == 3          \* most lines in the generator's response

\* a dict key that is not set
Absent == "<absent>"

\* the texts that follow a prefix
CardTexts == {"t1", "t2"}

\* the stripped lines of a response: one that starts with "Front:", one that
\* starts with "Back:", or another one (blank, numbering, prose)
ResponseLines ==
    {[kind |-> k, text |-> t] : k \in {"Front", "Back"}, t \in CardTexts}
        \cup {[kind |-> "other", text |-> ""]}

\* current_card = {}   (line 220)
EmptyCard == [front |-> Absent, back |-> Absent]

\* `if current_card:`: a dict is truthy when it has a key   (lines 225, 231)
CardIsTruthy(card) == card.front # Absent \/ card.back # Absent

\* the loop of lines 222-229 over lines[i..] and the lines 231-234 after it
RECURSIVE ParseFlashcards(_, _, _, _)
ParseFlashcards(lines, i, current_card, flashcards) ==
    IF i > Len(lines)
    THEN IF CardIsTruthy(current_card)
         THEN Append(flashcards, current_card)
         ELSE flashcards
    ELSE IF lines[i].kind = "Front"
    THEN ParseFlashcards(lines, i + 1,
                         [front |-> lines[i].text, back |-> Absent],
                         IF CardIsTruthy(current_card)
                         THEN Append(flashcards, current_card)
                         ELSE flashcards)
    ELSE IF lines[i].kind = "Back"
    THEN ParseFlashcards(lines, i + 1,
                         [current_card EXCEPT !.back = lines[i].text],
                         flashcards)
    ELSE ParseFlashcards(lines, i + 1, current_card, flashcards)

FlashcardsIdle ==
    /\ f_pc = "idle"
    /\ f_lines = <<>>
    /\ f_cards = <<>>

InitFlashcardsCall ==
    /\ f_pc = "call"
    /\ f_lines \in SeqsUpTo(ResponseLines, MaxLines)
    /\ f_cards = <<>>

\* the generator's response is parsed and the cards returned (lines 214-234)
GenerateFlashcards ==
    /\ f_pc = "call"
    /\ f_pc' = "done"
    /\ f_cards' = ParseFlashcards(f_lines, 1, EmptyCard, <<>>)
    /\ UNCHANGED f_lines
    /\ UNCHANGED <<p_vars, q_vars, c_vars, g_vars, w_vars, s_vars, k_vars>>

\* ------------------------------------------------------------------------
\* RagSystem.process_document and KnowledgeBase.add_documents
\* ------------------------------------------------------------------------

MaxDocs == 4           \* most process_document calls
MaxDocChunks == 2      \* most chunks of one document

\* what collection.add does with an id that the collection already holds:
\* it raises and adds nothing, or it leaves the stored chunk and skips the
\* new one; which of the two depends on the vector store
OnDuplicate == {"raise", "skip"}

\* ids = [f"doc_{i}" for i in range(len(texts))]
\* (rag/knowledge_base.py:56-57)
DefaultIds(n) == [i \in 1..n |-> "doc_" \o ToString(i - 1)]

\* the ids of a sequence, as a set
IdSet(ids) == {ids[i] : i \in 1..Len(ids)}

\* return doc_ids[0] if doc_ids else None   (__init__.py:139)
FirstIdOrNone(ids) == IF ids = <<>> THEN "<None>" ELSE ids[1]

NoDocuments ==
    /\ k_calls = <<>>
    /\ k_store = [id \in {} |-> 0]

\* process_document: the file is turned into n chunks, add_documents gives
\* them ids and adds them to the collection   (__init__.py:133-139,
\* rag/knowledge_base.py:56-73)
ProcessDocument ==
    /\ Len(k_calls) < MaxDocs
    /\ \E n \in 0..MaxDocChunks, dup \in OnDuplicate :
         LET doc    == Len(k_calls) + 1
             ids    == DefaultIds(n)
             clash  == IdSet(ids) \cap DOMAIN k_store
             raises == clash # {} /\ dup = "raise"
         IN  /\ (clash = {} => dup = "skip")
             /\ k_store' =
                  IF raises THEN k_store
                  ELSE [id \in DOMAIN k_store \cup IdSet(ids) |->
                          IF id \in DOMAIN k_store THEN k_store[id]
                          ELSE [doc |-> doc,
                                chunk |-> CHOOSE i \in 1..n : ids[i] = id]]
             /\ k_calls' = Append(k_calls,
                  [chunks |-> n, ids |-> ids,
                   status |-> IF raises THEN "DuplicateIDError" ELSE "ok",
                   returned |-> IF raises THEN "<None>"
                                ELSE FirstIdOrNone(ids)])
    /\ UNCHANGED <<p_vars, q_vars, c_vars, g_vars, w_vars, s_vars, f_vars>>

\* ------------------------------------------------------------------------
\* Specifications
\* ------------------------------------------------------------------------

InitPath ==
    InitPathCall /\ QuizIdle /\ ChunkIdle /\ GatherIdle /\ WebIdle /\ SyncIdle
        /\ FlashcardsIdle /\ NoDocuments
NextPath == StructurePath
SpecPath == InitPath /\ [][NextPath]_vars

InitQuiz ==
    PathIdle /\ InitQuizCall /\ ChunkIdle /\ GatherIdle /\ WebIdle /\ SyncIdle
        /\ FlashcardsIdle /\ NoDocuments
NextQuiz == GenerateAdaptiveQuiz
SpecQuiz == InitQuiz /\ [][NextQuiz]_vars

InitSelect ==
    PathIdle /\ InitSelectCall /\ ChunkIdle /\ GatherIdle /\ WebIdle /\ SyncIdle
        /\ FlashcardsIdle /\ NoDocuments
NextSelect == SelectContent \/ LevelToDifficultyCall
SpecSelect == InitSelect /\ [][NextSelect]_vars

InitChunk ==
    PathIdle /\ QuizIdle /\ InitChunkCall /\ GatherIdle /\ WebIdle /\ SyncIdle
        /\ FlashcardsIdle /\ NoDocuments
NextChunk == ChunkIter \/ ChunkReturn
SpecChunk == InitChunk /\ [][NextChunk]_vars

\* the loop is sequential code: an enabled step is eventually taken
SpecChunkFair == SpecChunk /\ WF_vars(NextChunk)

InitGather ==
    PathIdle /\ QuizIdle /\ ChunkIdle /\ InitGatherCall /\ WebIdle /\ SyncIdle
        /\ FlashcardsIdle /\ NoDocuments
NextGather == GatherSearchReturns \/ GatherSearchRaises \/ GatherReturn
SpecGather == InitGather /\ [][NextGather]_vars

InitWeb ==
    PathIdle /\ QuizIdle /\ ChunkIdle /\ GatherIdle /\ InitWebSearch /\ SyncIdle
        /\ FlashcardsIdle /\ NoDocuments
NextWeb ==
    \/ \E c \in Calls :
          \/ WebSearchCall(c)
          \/ CacheTest(c)
          \/ CacheRead(c)
          \/ CacheEvict(c)
          \/ Dispatch(c)
          \/ FetchReturns(c)
          \/ FetchRaises(c)
          \/ CacheClean(c)
          \/ CachePurge(c)
    \/ Tick
SpecWeb == InitWeb /\ [][NextWeb]_vars

InitSync ==
    PathIdle /\ QuizIdle /\ ChunkIdle /\ GatherIdle /\ WebIdle /\ InitSyncCall
        /\ FlashcardsIdle /\ NoDocuments
NextSync == SyncSearch
SpecSync == InitSync /\ [][NextSync]_vars

InitFlashcards ==
    PathIdle /\ QuizIdle /\ ChunkIdle /\ GatherIdle /\ WebIdle /\ SyncIdle
        /\ InitFlashcardsCall /\ NoDocuments
NextFlashcards == GenerateFlashcards
SpecFlashcards == InitFlashcards /\ [][NextFlashcards]_vars

InitDocuments ==
    PathIdle /\ QuizIdle /\ ChunkIdle /\ GatherIdle /\ WebIdle /\ SyncIdle
        /\ FlashcardsIdle /\ NoDocuments
NextDocuments == ProcessDocument
SpecDocuments == InitDocuments /\ [][NextDocuments]_vars

Init ==
    InitPath \/ InitQuiz \/ InitSelect \/ InitChunk \/ InitGather \/ InitWeb
        \/ InitSync \/ InitFlashcards \/ InitDocuments
Next ==
    NextPath \/ NextQuiz \/ NextSelect \/ NextChunk \/ NextGather \/ NextWeb
        \/ NextSync \/ NextFlashcards \/ NextDocuments
Spec == Init /\ [][Next]_vars


\* ------------------------------------------------------------------------
\* Properties of _structure_path
\* ------------------------------------------------------------------------

\* the user's level is one of the four and every item's difficulty is one
\* of the four or absent
PathInputWellFormed ==
    /\ p_level \in Levels
    /\ \A i \in 1..Len(p_content) : p_content[i] \in Levels \cup {NoDifficulty}

\* sum(activity.duration for module in path.modules for activity in module.activities)
PathActivityMinutes(path) ==
    SumSeq([m \in 1..Len(path.modules) |->
              SumSeq(ActivityDurations(path.modules[m].activities))])

\* the levels at or above the user's level whose bucket is non-empty
NonEmptyLevelsFrom(content, level) ==
    {difficulty_levels[i] : i \in
        {k \in LevelIndex(level)..Len(difficulty_levels) :
            content_by_level(content, difficulty_levels[k]) # <<>>}}

\* C1: for every content list, start level, learning style and finite budget
\* (0 included), _structure_path builds a learning path whose activities'
\* durations sum to at most the budget, max_duration_hours * 60 minutes.
C1_TotalWithinBudget ==
    (p_pc = "done" /\ PathInputWellFormed /\ p_hours # NoBudget)
        => /\ p_result.status = "path"
           /\ PathActivityMinutes(p_result) <= p_hours

\* C2: with no budget, _structure_path returns a path with exactly one module
\* for every level at or above the start level whose bucket is non-empty,
\* holding one activity per item of the bucket, and no other module.
C2_OneModulePerNonEmptyLevel ==
    (p_pc = "done" /\ PathInputWellFormed /\ p_hours = NoBudget)
        => /\ p_result.status = "path"
           /\ {p_result.modules[m].difficulty : m \in 1..Len(p_result.modules)}
                = NonEmptyLevelsFrom(p_content, p_level)
           /\ Len(p_result.modules)
                = Cardinality(NonEmptyLevelsFrom(p_content, p_level))
           /\ \A m \in 1..Len(p_result.modules) :
                [a \in 1..Len(p_result.modules[m].activities) |->
                    p_result.modules[m].activities[a].item]
                  = content_by_level(p_content, p_result.modules[m].difficulty)


\* ------------------------------------------------------------------------
\* Properties of the quiz generator
\* ------------------------------------------------------------------------

QuizDone == q_pc = "done" /\ q_result.op = "quiz"

QuestionKinds(questions) == [i \in 1..Len(questions) |-> questions[i].type]

C4_EmptyContentFails ==
    (QuizDone /\ q_content = <<>> /\ q_num > 0)
        => /\ q_result.status # "quiz"
           /\ q_result.questions = <<>>

\* a call with empty content, three questions asked and a usable type list
\* ended in the ValueError of min()
C4_Witness ==
    /\ QuizDone
    /\ q_content = <<>>
    /\ q_num = 3
    /\ q_types = <<"multiple_choice", "true_false">>
    /\ q_result.status = "ValueError"

SelectDone == q_pc = "done" /\ q_result.op = "select"

\* C5: for a non-empty list the item returned is in the list, no item has a
\* smaller distance abs(anchor - target), every earlier item has a strictly
\* larger one, and a single-item list returns its item.
C5_ClosestFirst ==
    (SelectDone /\ q_content # <<>>)
        => /\ q_result.status = "ok"
           /\ q_result.selected \in 1..Len(q_content)
           /\ \A i \in 1..Len(q_content) :
                DistanceKey(q_content[q_result.selected], q_level)
                    <= DistanceKey(q_content[i], q_level)
           /\ \A i \in 1..(q_result.selected - 1) :
                DistanceKey(q_content[i], q_level)
                    > DistanceKey(q_content[q_result.selected], q_level)
           /\ Len(q_content) = 1 => q_result.selected = 1

\* a three-item list whose first and last items (anchor 0.5) and middle item
\* (anchor 0.7) are all at the minimal distance from 0.6: the first came back
C5_Witness ==
    /\ SelectDone
    /\ q_content = <<"intermediate", "advanced", "intermediate">>
    /\ q_level = 60
    /\ q_result.selected = 1

LevelDone == q_pc = "done" /\ q_result.op = "level"

\* beginner < intermediate < advanced < expert
CategoryRank(c) == LevelIndex(c)

\* C6: _level_to_difficulty gives beginner below 0.3, intermediate in
\* [0.3, 0.6), advanced in [0.6, 0.8) and expert from 0.8 on; no lower level
\* maps to a higher category; 0.3, 0.6 and 0.8 map to the higher category.
C6_Bands ==
    LevelDone
        => /\ q_result.category \in Levels
           /\ (q_result.category = "beginner") = (q_level < 30)
           /\ (q_result.category = "intermediate") = (30 <= q_level /\ q_level < 60)
           /\ (q_result.category = "advanced") = (60 <= q_level /\ q_level < 80)
           /\ (q_result.category = "expert") = (80 <= q_level)
           /\ \A lower \in AllLevels :
                lower <= q_level =>
                    CategoryRank(LevelToDifficulty(lower))
                        <= CategoryRank(q_result.category)
           /\ q_level = 30 => q_result.category = "intermediate"
           /\ q_level = 60 => q_result.category = "advanced"
           /\ q_level = 80 => q_result.category = "expert"

\* the boundary 0.3 was mapped, to intermediate
C6_Witness ==
    /\ LevelDone
    /\ q_level = 30
    /\ q_result.category = "intermediate"

\* ------------------------------------------------------------------------
\* Properties of _chunk_text
\* ------------------------------------------------------------------------

\* the number of leading whitespace characters of s
LeadingSpaces(s) == SkipSpaces(s, 1) - 1

\* The positions (1-based, in c_tokens) of the tokens that the text of a
\* chunk retains from its slice [start, end): the slice less what the
\* leading adjustment, the trailing adjustment and strip() removed.
KeptPositions(tokens, start, end) ==
    LET lo      == SliceBound(start, Len(tokens))
        decoded == PySlice(tokens, start, end)
        lead    == IF start > 0 THEN TrimLeading(decoded) ELSE decoded
        trail   == IF end < Len(tokens) THEN TrimTrailing(lead) ELSE lead
        first   == lo + (Len(decoded) - Len(lead)) + LeadingSpaces(trail) + 1
    IN  first..(first + Len(Strip(trail)) - 1)

\* token position i is in the text of no chunk
MissingFromChunks(i) ==
    \A k \in 1..Len(c_chunks) :
        i \notin KeptPositions(c_tokens, c_chunks[k].start, c_chunks[k].end)

\* token position i (1-based) lies in the slice [start, end) of some chunk
InSomeSlice(i) ==
    \E k \in 1..Len(c_chunks) :
        c_chunks[k].start < i /\ i <= c_chunks[k].end

\* a run a..b of tokens, not all whitespace, that no chunk's text holds
MissingRun(a, b) ==
    /\ a <= b
    /\ \A i \in a..b : MissingFromChunks(i)
    /\ \E i \in a..b : c_tokens[i] # Space

\* C7 as stated: with chunk_overlap < chunk_size the returned chunks cover
\* the whole token range: no run of tokens longer than the overlap window is
\* missing from all chunks.  Stated in the claim's favour: whitespace alone
\* does not count as a missing run, and only calls that were not cut short
\* by max_chunks are looked at.
C7_ChunksCoverRange ==
    (c_pc = "done" /\ c_overlap < c_size /\ Len(c_chunks) < c_max)
        => \A a, b \in 1..Len(c_tokens) :
              MissingRun(a, b) => (b - a + 1) <= token_overlap(c_overlap)

\* C7 amended: with 0 <= chunk_overlap < chunk_size the token slices that
\* the chunks are decoded from leave no gap: the first starts at 0, each next
\* one starts after the previous start and not after the previous end, every
\* token before the end of the last slice lies in a slice, and when fewer
\* than max_chunks chunks were returned every token lies in a slice.
C7_SlicesCoverRange ==
    (0 <= c_overlap /\ c_overlap < c_size)
        => /\ c_chunks # <<>> => c_chunks[1].start = 0
           /\ \A k \in 1..(Len(c_chunks) - 1) :
                /\ c_chunks[k + 1].start > c_chunks[k].start
                /\ c_chunks[k + 1].start <= c_chunks[k].end
           /\ \A i \in 1..Len(c_tokens) :
                (c_chunks # <<>> /\ i <= c_chunks[Len(c_chunks)].end)
                    => InSomeSlice(i)
           /\ (c_pc = "done" /\ Len(c_chunks) < c_max)
                => \A i \in 1..Len(c_tokens) : InSomeSlice(i)

\* a finished call that returned several chunks, fewer than max_chunks,
\* whose texts miss a token that is not whitespace
C7_Witness ==
    /\ c_pc = "done"
    /\ c_overlap < c_size
    /\ Len(c_chunks) >= 2
    /\ Len(c_chunks) < c_max
    /\ \E i \in 1..Len(c_tokens) : MissingRun(i, i)

\* C8: with chunk_overlap >= chunk_size no chunk is emitted, and every
\* iteration that emits a chunk moves the cursor strictly forward.
C8_FailsFast ==
    [][c_chunks' # c_chunks => (c_overlap < c_size /\ c_start' > c_start)]_vars

\* C9: _chunk_text returns for every text and configuration.
C9_Terminates == <>(c_pc = "done")

\* a call whose cursor did not advance (overlap >= size) and that returned
\* after several iterations
C9_Witness ==
    /\ c_pc = "done"
    /\ c_overlap >= c_size
    /\ Len(c_chunks) >= 2
    /\ c_start <= 0

\* C10: the number of chunks never exceeds max_chunks.
C10_AtMostMaxChunks == Len(c_chunks) <= c_max

\* the token slice that chunk k was decoded from
ChunkSlice(k) == PySlice(c_tokens, c_chunks[k].start, c_chunks[k].end)

\* C11: every chunk is decoded from a token slice [start, end) with
\* end = start + chunk_size, so it is built from at most chunk_size tokens,
\* and each next chunk starts chunk_size - chunk_overlap tokens further on.
C11_SliceIsChunkSize ==
    /\ \A k \in 1..Len(c_chunks) :
         /\ c_chunks[k].end = c_chunks[k].start + c_size
         /\ Len(ChunkSlice(k)) <= c_size
    /\ \A k \in 1..(Len(c_chunks) - 1) :
         c_chunks[k + 1].start = c_chunks[k].start + (c_size - c_overlap)

\* s holds a sentence terminator that is followed by whitespace and a word
HasBoundary(s) == \E i \in 1..Len(s) : BoundaryAt(s, i)

\* C12: a chunk that is not the last slice of the document (end < N) and
\* whose slice holds a sentence terminator followed by further text (here:
\* by whitespace and a word, the pattern the code looks for) is cut back to
\* its last sentence terminator: its text ends with a terminator.
C12_EndsAtTerminator ==
    \A k \in 1..Len(c_chunks) :
        (c_chunks[k].end < Len(c_tokens) /\ HasBoundary(ChunkSlice(k)))
            => /\ c_chunks[k].text # <<>>
               /\ c_chunks[k].text[Len(c_chunks[k].text)] = Terminator

\* the position in s of the word character that follows the first
\* terminator-whitespace-word pattern of s
FirstSentenceStart(s) ==
    SkipSpaces(s, (CHOOSE i \in 1..Len(s) :
                      /\ BoundaryAt(s, i)
                      /\ \A j \in 1..(i - 1) : ~BoundaryAt(s, j)) + 1)

\* what lines 130-136 make of a text: the trailing adjustment when the slice
\* is not the last one, then strip()
AfterLeading(s, end) ==
    Strip(IF end < Len(c_tokens) THEN TrimTrailing(s) ELSE s)

\* C13: a chunk that is not the first (start > 0) and whose slice holds a
\* terminator followed by whitespace and a word character begins at the
\* first word character after the first such terminator; when the slice holds
\* no such pattern nothing is cut from it (surrounding whitespace aside,
\* which strip() removes from every chunk).
C13_BeginsAtFirstSentence ==
    \A k \in 1..Len(c_chunks) :
        c_chunks[k].start > 0 =>
            LET s == ChunkSlice(k)
            IN  IF HasBoundary(s)
                THEN /\ c_chunks[k].text # <<>>
                     /\ c_chunks[k].text[1] = WordChar
                     /\ c_chunks[k].text =
                          AfterLeading(SubSeq(s, FirstSentenceStart(s), Len(s)),
                                       c_chunks[k].end)
                ELSE c_chunks[k].text = Strip(s)

\* a returned chunk that is not the first and whose text starts later than
\* its slice, at a word that follows a terminator
C13_Witness ==
    /\ c_pc = "done"
    /\ \E k \in 1..Len(c_chunks) :
         /\ c_chunks[k].start > 0
         /\ HasBoundary(ChunkSlice(k))
         /\ Len(c_chunks[k].text) < Len(Strip(ChunkSlice(k)))

\* ------------------------------------------------------------------------
\* Properties of _gather_content
\* ------------------------------------------------------------------------

\* the goals of the rag.search calls issued, in the order of the calls
CalledGoals == [k \in 1..Len(g_calls) |-> g_calls[k].goal]

\* the per-goal result lists of calls k.., each item tagged with its goal,
\* one list after the other
RECURSIVE ConcatTagged(_, _)
ConcatTagged(calls, k) ==
    IF k > Len(calls) THEN <<>>
    ELSE TaggedItems(calls[k].results, calls[k].goal) \o ConcatTagged(calls, k + 1)

\* the number of times document d is in the result list of a call
TimesReturned(d) ==
    SumSeq([k \in 1..Len(g_calls) |->
              Cardinality({i \in 1..Len(g_calls[k].results) :
                              g_calls[k].results[i] = d})])

\* the number of items of the returned list that hold document d
TimesInContent(d) ==
    Cardinality({i \in 1..Len(g_result.content) : g_result.content[i].text = d})

\* C14: when no search fails, _gather_content has issued exactly one search
\* per goal in the order given and returns the per-goal result lists, each
\* item tagged with its goal, one after the other in their order and without
\* deduplication: a document returned k times is k times in the output.
C14_ConcatenatesPerGoalResults ==
    (g_pc = "done" /\ \A k \in 1..Len(g_calls) : g_calls[k].status = "ok")
        => /\ g_result.status = "ok"
           /\ CalledGoals = g_goals
           /\ g_result.content = ConcatTagged(g_calls, 1)
           /\ \A d \in Documents : TimesInContent(d) = TimesReturned(d)

\* C15: a rag.search that raises ends _gather_content (and generate_path)
\* with that exception and without a content list, and no goal is searched
\* twice: the k-th call is the search for the k-th goal.
C15_SearchFailurePropagates ==
    /\ Len(g_calls) <= Len(g_goals)
    /\ \A k \in 1..Len(g_calls) :
         /\ g_calls[k].goal = g_goals[k]
         /\ g_calls[k].status # "ok"
              => /\ k = Len(g_calls)
                 /\ g_pc = "done"
                 /\ g_result.status = g_calls[k].status
                 /\ g_result.content = <<>>

\* the search of a later goal raised after earlier searches had returned
C15_Witness ==
    /\ g_pc = "done"
    /\ Len(g_calls) >= 2
    /\ g_calls[1].status = "ok"
    /\ g_calls[Len(g_calls)].status \in SearchErrors
    /\ Len(g_calls) < Len(g_goals)

\* ------------------------------------------------------------------------
\* Bucketing in _structure_path
\* ------------------------------------------------------------------------

\* the levels whose bucket holds item i of the content
BucketsHolding(content, i) ==
    {l \in Levels :
        \E k \in 1..Len(content_by_level(content, l)) :
            content_by_level(content, l)[k] = i}

\* C16: _structure_path puts every content item in exactly one of the four
\* buckets, an item without a difficulty or with a difficulty that is not one
\* of the four levels in the intermediate one, and the bucketing raises
\* nothing.
C16_EveryItemBucketed ==
    (p_pc = "done" /\ p_level \in Levels)
        => /\ p_result.status # "KeyError"
           /\ \A i \in 1..Len(p_content) :
                /\ Cardinality(BucketsHolding(p_content, i)) = 1
                /\ p_content[i] \notin Levels
                     => BucketsHolding(p_content, i) = {"intermediate"}

\* ------------------------------------------------------------------------
\* Properties of WebSearch.search and its cache
\* ------------------------------------------------------------------------

\* the age of the entry under call c's key, when there is one
EntryAge(c) == w_now - w_cache[w_call[c].key].timestamp

\* call c is at the lookup of an entry that exists
LooksUp(c) == w_call[c].pc = "read" /\ w_call[c].key \in DOMAIN w_cache

\* what C17 asks of a step of call c
C17_Step(c) ==
    /\ (w_call[c].pc # "done" /\ w_call'[c].pc = "done"
            /\ w_call'[c].result.cached)
         => /\ LooksUp(c)
            /\ EntryAge(c) < w_duration
    /\ (LooksUp(c) /\ EntryAge(c) >= w_duration)
         => /\ w_call'[c].pc = "evict"
            /\ w_fetches' = w_fetches
    /\ w_call[c].pc = "evict"
         => /\ w_call[c].key \notin DOMAIN w_cache'
            /\ w_call'[c].pc = "dispatch"
    /\ (w_call[c].pc = "dispatch" /\ w_call[c].engine \in SupportedEngines)
         => /\ w_call'[c].pc = "await"
            /\ w_fetches' = Append(w_fetches, w_call[c].key)
    /\ (LooksUp(c) /\ EntryAge(c) < w_duration)
         => /\ w_call'[c].pc = "done"
            /\ w_call'[c].result.status = "ok"
            /\ w_call'[c].result.data = w_cache[w_call[c].key].data
            /\ w_call'[c].fetched = 0
            /\ w_fetches' = w_fetches

\* C17: search never returns a cached payload whose age is cache_duration
\* or more: a lookup that finds such an entry evicts it and (for a supported
\* engine) goes on to a fresh engine search; a lookup that finds a younger
\* entry under the key returns that entry's payload and calls no engine.
C17_NoStaleCacheHit ==
    [][\A c \in Calls : w_call'[c] # w_call[c] => C17_Step(c)]_vars

\* a call served from the cache by an entry one second short of expiry,
\* after time has passed
C17_Witness ==
    \E c \in Calls :
        /\ w_call[c].pc = "done"
        /\ w_call[c].result.cached
        /\ w_call[c].result.age > 0
        /\ w_call[c].result.age = w_duration - 1
        /\ w_call[c].fetched = 0

\* call c has begun a cache operation (get, put with its clean-up, evict)
\* and not finished it
InCacheOp(c) == w_call[c].pc \in {"read", "evict", "clean", "purge"}

\* the keys that the cache operation of call c reads, writes or deletes
TouchedKeys(c) ==
    CASE w_call[c].pc \in {"read", "evict"} -> {w_call[c].key}
      [] w_call[c].pc = "clean" -> DOMAIN w_cache
      [] w_call[c].pc = "purge" -> w_call[c].expired \cup {w_call[c].key}
      [] OTHER -> {}

\* C18: with several search calls in progress on one WebSearch, no two of
\* them are inside cache operations that touch a common key, and no call
\* fails because an entry it was about to read or delete is gone.
C18_CacheOpsExclusive ==
    /\ \A c, d \in Calls :
         (c # d /\ InCacheOp(c) /\ InCacheOp(d))
            => TouchedKeys(c) \cap TouchedKeys(d) = {}
    /\ \A c \in Calls : w_call[c].result.status # "KeyError"

\* two calls for the same key in progress at once: one suspended in its
\* engine search while the other is inside the put that follows its own
C18_Witness ==
    \E c, d \in Calls :
        /\ c # d
        /\ w_call[c].pc = "await"
        /\ w_call[d].pc \in {"clean", "purge"}
        /\ w_call[c].key = w_call[d].key

\* C19: a search call whose engine is not google or duckduckgo ends in an
\* error, whatever the cache holds, and has made no engine request and
\* written no cache entry.
C19_UnsupportedEngineFails ==
    \A c \in Calls :
        (w_call[c].pc = "done" /\ w_call[c].engine \notin SupportedEngines)
            => /\ w_call[c].result.status = "ValueError"
               /\ w_call[c].fetched = 0
               /\ w_call[c].data = NoPayload

\* ------------------------------------------------------------------------
\* Properties of WebSearch.search over requests
\* ------------------------------------------------------------------------

\* the engine that the call searches with
SyncEngine == IF s_engine = NoEngine THEN default_engine ELSE s_engine

\* C20: when the search-engine request of a search call fails (transport
\* error or error status), the call ends in an error: it does not return a
\* response, with an empty result list or otherwise.
C20_RequestFailureSurfaces ==
    (s_pc = "done" /\ "request" \in {s_log[i] : i \in 1..Len(s_log)}
        /\ s_response.kind # "ok")
        => s_result.status \notin {"ok", "none"}

\* ------------------------------------------------------------------------
\* Properties of the packing in _structure_path
\* ------------------------------------------------------------------------

\* the content items in the order the packing visits them: the buckets from
\* level index idx on, each in input order
RECURSIVE PackingOrderFrom(_, _)
PackingOrderFrom(content, idx) ==
    IF idx > Len(difficulty_levels) THEN <<>>
    ELSE content_by_level(content, difficulty_levels[idx])
            \o PackingOrderFrom(content, idx + 1)

PackingOrder == PackingOrderFrom(p_content, LevelIndex(p_level))

\* the items of a module's activities, in the module's order
ModuleItems(module) ==
    [a \in 1..Len(module.activities) |-> module.activities[a].item]

\* the items of all activities of a path, module after module
RECURSIVE PathItemsFrom(_, _)
PathItemsFrom(path, m) ==
    IF m > Len(path.modules) THEN <<>>
    ELSE ModuleItems(path.modules[m]) \o PathItemsFrom(path, m + 1)

\* the k-th activity in packing order is the first that would take the
\* running total over a budget of b minutes
FirstRejected(k, b) ==
    /\ k \in 1..Len(PackingOrder)
    /\ k * ActivityDuration(p_style) > b
    /\ (k - 1) * ActivityDuration(p_style) <= b

\* the call is over, with a valid level and difficulties, and some bucket at
\* or above the start level holds an item
PackedSomething ==
    /\ p_pc = "done"
    /\ PathInputWellFormed
    /\ PackingOrder # <<>>

\* C22: with a budget, once an activity is rejected because it would take
\* the running total over the budget, the returned path holds no activity
\* that comes after it in packing order, in the same module or a later one.
C22_NothingAfterRejection ==
    \A k \in 1..MaxContent :
        (PackedSomething /\ p_hours > 0 /\ FirstRejected(k, p_hours))
            => /\ p_result.status = "path"
               /\ PathItemsFrom(p_result, 1) = SubSeq(PackingOrder, 1, k - 1)

\* C23: the returned path's difficulty_progression (its modules' levels) is
\* strictly ascending, has no level below the start level, and each module's
\* activities are a prefix of its level's bucket, in input order.
C23_AscendingLevelsInputOrder ==
    PackedSomething
        => /\ p_result.status = "path"
           /\ \A m \in 1..Len(p_result.modules) :
                /\ LevelIndex(p_result.modules[m].difficulty) >= LevelIndex(p_level)
                /\ m > 1 => LevelIndex(p_result.modules[m].difficulty)
                              > LevelIndex(p_result.modules[m - 1].difficulty)
                /\ LET bucket == content_by_level(p_content,
                                                  p_result.modules[m].difficulty)
                       items  == ModuleItems(p_result.modules[m])
                   IN  /\ Len(items) <= Len(bucket)
                       /\ items = SubSeq(bucket, 1, Len(items))

\* C24: in the returned path each module's estimated_duration is the sum of
\* its activities' durations and total_duration is the sum of the modules'
\* estimated_duration values.
C24_DurationsAddUp ==
    PackedSomething
        => /\ p_result.status = "path"
           /\ \A m \in 1..Len(p_result.modules) :
                p_result.modules[m].estimated_duration
                    = SumSeq(ActivityDurations(p_result.modules[m].activities))
           /\ p_result.total_duration
                = SumSeq([m \in 1..Len(p_result.modules) |->
                            p_result.modules[m].estimated_duration])

\* C25: every module of the returned path has at least one activity, and a
\* level whose bucket is empty contributes no module.
C25_NoEmptyModule ==
    PackedSomething
        => /\ p_result.status = "path"
           /\ \A m \in 1..Len(p_result.modules) :
                /\ p_result.modules[m].activities # <<>>
                /\ content_by_level(p_content, p_result.modules[m].difficulty)
                     # <<>>

\* C29: with a valid level, a learning style and difficulties that are each
\* one of the four levels or absent, _structure_path returns a path and
\* raises nothing; when a bucket at or above the start level is non-empty
\* the title of the module, built from the level and course_material, can be
\* evaluated.
C29_ReturnsPathWithoutRaising ==
    (p_pc = "done" /\ PathInputWellFormed)
        => /\ p_result.status = "path"
           /\ PackingOrder # <<>> => TitleResolves

\* ------------------------------------------------------------------------
\* Properties of _generate_flashcards
\* ------------------------------------------------------------------------

\* C26: every flashcard returned has a front and a back: a Front line that
\* no Back line follows, and a Back line that no Front line precedes, yield
\* no card.
C26_CardsAreComplete ==
    \A i \in 1..Len(f_cards) :
        f_cards[i].front # Absent /\ f_cards[i].back # Absent

\* ------------------------------------------------------------------------
\* Filters and the cache of WebSearch.search
\* ------------------------------------------------------------------------

\* C27: every response that a search call returns has been filtered by the
\* filter_criteria of that call, also when it is served from the cache
\* after an earlier call for the same engine, query and num_results that
\* gave no filter_criteria.
C27_ResultsMatchFilter ==
    \A c \in Calls :
        (w_call[c].pc = "done" /\ w_call[c].result.status = "ok"
            /\ w_call[c].filter)
            => w_call[c].result.data.filtered

\* ------------------------------------------------------------------------
\* Properties of the ids given by add_documents
\* ------------------------------------------------------------------------

\* C28: the ids that add_documents gives to the chunks of the documents
\* processed so far are unique across calls, and every chunk of every
\* processed document is stored under its own id.
C28_IdsUniqueAcrossCalls ==
    /\ \A a, b \in 1..Len(k_calls) :
         a # b => IdSet(k_calls[a].ids) \cap IdSet(k_calls[b].ids) = {}
    /\ \A c \in 1..Len(k_calls) : \A i \in 1..k_calls[c].chunks :
         /\ k_calls[c].ids[i] \in DOMAIN k_store
         /\ k_store[k_calls[c].ids[i]] = [doc |-> c, chunk |-> i]

\* the engine request was sent and answered with results
EngineAnswered ==
    /\ s_pc = "done"
    /\ "request" \in {s_log[i] : i \in 1..Len(s_log)}
    /\ s_response.kind = "ok"

\* C21: search returns one entry per result of the engine, in the engine's
\* order, each holding its result; an entry whose page fetch failed has an
\* empty content, the others have their page's text, and the call succeeds.
C21_OneEntryPerResult ==
    EngineAnswered
        => /\ s_result.status = "ok"
           /\ Len(s_result.results) = Len(s_response.pages)
           /\ \A i \in 1..Len(s_result.results) :
                /\ s_result.results[i].hit = i
                /\ s_result.results[i].content
                     = (IF s_response.pages[i] = "failed" THEN "" ELSE "text")

\* a search with two results, the first of which could not be fetched
C21_Witness ==
    /\ EngineAnswered
    /\ Len(s_response.pages) = 2
    /\ s_response.pages[1] = "failed"
    /\ s_response.pages[2] = "text"
    /\ Len(s_result.results) = 2

\* the positions of s_log that are HTTP requests
HttpEvents == {i \in 1..Len(s_log) : s_log[i] \in {"request", "fetch"}}

\* i and j are HTTP requests with no other HTTP request between them
ConsecutiveRequests(i, j) ==
    /\ i \in HttpEvents /\ j \in HttpEvents /\ i < j
    /\ \A k \in (i + 1)..(j - 1) : k \notin HttpEvents

\* C30: between any two consecutive HTTP requests of a search call (the
\* engine request and the page fetches) there is a call of
\* _respect_rate_limit, and the two are sent at least rate_limit seconds
\* apart.
C30_RateLimitBetweenRequests ==
    \A i, j \in 1..Len(s_log) :
        ConsecutiveRequests(i, j)
            => /\ \E k \in (i + 1)..(j - 1) : s_log[k] = "limit"
               /\ s_times[j] - s_times[i] >= s_rate

====
